---- MODULE Spec2Model ----
(***************************************************************************)
(* Blend Mode Compendium: the compositing engine blend_images, the blend   *)
(* formulas it dispatches to, and the RGB <-> HCL conversion, of           *)
(* src/functions/blend_mode_functions/blend_mode_functions.py.             *)
(*                                                                         *)
(* Numbers.  The code computes on floating-point arrays.  A number is      *)
(* modelled as <<n, d, k>>, the value (n/d) * eps^k, with n/d a fraction   *)
(* in lowest terms and eps the module constant epsilon = 1e-10 taken as a  *)
(* positive infinitesimal: a sum keeps its leading order, so x + eps is x  *)
(* for x # 0 and eps for x = 0, and y / eps is larger than every fraction. *)
(* Equality of two modelled numbers is therefore equality up to terms of   *)
(* relative size eps, well inside the tolerance 1e-6 of the contracts.     *)
(* The code's comparisons are made on values that carry no eps term, and   *)
(* clip / minimum / maximum are continuous, so no selection depends on the *)
(* dropped terms.  d = 0 gives the non-finite values a division by zero    *)
(* produces: <<1,0,0>> = +inf, <<-1,0,0>> = -inf, <<0,0,0>> = nan.         *)
(*                                                                         *)
(* Objects.  image1, image2, hcl_image and result hold the values of the   *)
(* arrays passed to and returned by a call.  Where the identity of the     *)
(* arrays matters (SpecObjects) heap holds the buffer of every array that  *)
(* exists and refs the arrays the caller's names refer to; elsewhere they  *)
(* stay empty.  hcl_back holds the value of a second rgb_to_hcl, made on   *)
(* the result of hcl_to_rgb (SpecFromHCL).                                 *)
(***************************************************************************)
EXTENDS Integers, Sequences, FiniteSets, TLC

VARIABLES image1, image2, alpha, blend_mode, pc, result, raised, stdout,
          hcl_image, heap, refs, hcl_back

vars == <<image1, image2, alpha, blend_mode, pc, result, raised, stdout,
          hcl_image, heap, refs, hcl_back>>

----------------------------------------------------------------------------
(* Floating-point numbers                                                  *)

RECURSIVE GCD(_, _)
GCD(a, b) == IF b = 0 THEN a ELSE GCD(b, a % b)

IAbs(n) == IF n < 0 THEN -n ELSE n

ISign(n) == IF n < 0 THEN -1 ELSE IF n > 0 THEN 1 ELSE 0

\* the fraction n/d (d > 0) at order k, in lowest terms
Norm(n, d, k) ==
    IF n = 0 THEN <<0, 1, 0>>
    ELSE LET g == GCD(IAbs(n), d) IN <<n \div g, d \div g, k>>

NaN == <<0, 0, 0>>
PosInf == <<1, 0, 0>>
NegInf == <<-1, 0, 0>>

IsNaN(x) == x[2] = 0 /\ x[1] = 0
IsInf(x) == x[2] = 0 /\ x[1] # 0
IsFinite(x) == x[2] # 0

Num(n, d) == Norm(n, d, 0)
Zero == <<0, 1, 0>>
One == <<1, 1, 0>>
Two == <<2, 1, 0>>
Half == <<1, 2, 0>>

Neg(x) == <<-x[1], x[2], x[3]>>

\* sign of a number (nan has none and reads 0)
Sign(x) == ISign(x[1])

FAdd(x, y) ==
    IF x[1] = 0 THEN y
    ELSE IF y[1] = 0 THEN x
    ELSE IF x[3] < y[3] THEN x
    ELSE IF y[3] < x[3] THEN y
    ELSE LET g == GCD(x[2], y[2])
         IN  Norm(x[1] * (y[2] \div g) + y[1] * (x[2] \div g),
                  (x[2] \div g) * y[2], x[3])

Add(x, y) ==
    IF IsNaN(x) \/ IsNaN(y) THEN NaN
    ELSE IF IsInf(x) THEN (IF IsInf(y) /\ y # x THEN NaN ELSE x)
    ELSE IF IsInf(y) THEN y
    ELSE FAdd(x, y)

Sub(x, y) == Add(x, Neg(y))

FMul(x, y) ==
    IF x[1] = 0 \/ y[1] = 0 THEN Zero
    ELSE LET g1 == GCD(IAbs(x[1]), y[2])
             g2 == GCD(IAbs(y[1]), x[2])
         IN  <<(x[1] \div g1) * (y[1] \div g2),
               (x[2] \div g2) * (y[2] \div g1), x[3] + y[3]>>

Mul(x, y) ==
    IF IsNaN(x) \/ IsNaN(y) THEN NaN
    ELSE IF IsInf(x) \/ IsInf(y)
         THEN (IF Sign(x) * Sign(y) = 0 THEN NaN
               ELSE <<Sign(x) * Sign(y), 0, 0>>)
    ELSE FMul(x, y)

\* IEEE division: x/0 is +-inf for x # 0 and nan for x = 0
Div(x, y) ==
    IF IsNaN(x) \/ IsNaN(y) THEN NaN
    ELSE IF IsInf(y) THEN (IF IsInf(x) THEN NaN ELSE Zero)
    ELSE IF IsInf(x) THEN (IF Sign(y) < 0 THEN Neg(x) ELSE x)
    ELSE IF y[1] = 0 THEN (IF x[1] = 0 THEN NaN ELSE <<Sign(x), 0, 0>>)
    ELSE FMul(x, <<Sign(y) * y[2], IAbs(y[1]), -y[3]>>)

\* the order of magnitude of a number: infinities lie below every eps^k
Ord(x) == IF x[2] = 0 THEN -100 ELSE x[3]

\* x < y; every comparison with nan is false
Less(x, y) ==
    /\ ~IsNaN(x) /\ ~IsNaN(y)
    /\ IF Sign(x) # Sign(y) THEN Sign(x) < Sign(y)
       ELSE IF Ord(x) # Ord(y) THEN (Sign(x) > 0) = (Ord(x) > Ord(y))
       ELSE x[1] * y[2] < y[1] * x[2]

LessEq(x, y) == ~IsNaN(x) /\ ~IsNaN(y) /\ (x = y \/ Less(x, y))

\* np.minimum / np.maximum / np.clip / np.abs: nan propagates
Minimum(x, y) ==
    IF IsNaN(x) \/ IsNaN(y) THEN NaN ELSE IF Less(y, x) THEN y ELSE x

Maximum(x, y) ==
    IF IsNaN(x) \/ IsNaN(y) THEN NaN ELSE IF Less(x, y) THEN y ELSE x

Clip(x, lo, hi) == Minimum(Maximum(x, lo), hi)

Abs(x) == <<IAbs(x[1]), x[2], x[3]>>

\* floor of a finite fraction of order 0
Floor(x) == x[1] \div x[2]

\* x % y of Python / numpy for y > 0: the result has the sign of y
Mod(x, y) ==
    IF ~IsFinite(x) \/ ~IsFinite(y) \/ y[1] = 0 THEN NaN
    ELSE Sub(x, Mul(y, Num(Floor(Div(x, y)), 1)))

\* the integer square root: the largest r with r * r <= v
ISqrt(v) == CHOOSE r \in 0..v : r * r <= v /\ (r + 1) * (r + 1) > v

\* np.sqrt to a precision of 1/(d*SqrtScale); exact on squares of fractions
SqrtScale == 100

Sqrt(x) ==
    IF IsNaN(x) \/ Sign(x) < 0 THEN NaN
    ELSE IF IsInf(x) THEN x
    ELSE Norm(ISqrt(x[1] * x[2] * SqrtScale * SqrtScale),
              x[2] * SqrtScale, 0)

\* epsilon = 1e-10
epsilon == <<1, 1, 1>>

Six == <<6, 1, 0>>
Four == <<4, 1, 0>>

\* x == y on floats: false when either side is nan
Eq(x, y) == ~IsNaN(x) /\ ~IsNaN(y) /\ x = y

\* np.where on one element
Where(cond, a, b) == IF cond THEN a ELSE b

----------------------------------------------------------------------------
(* Arrays.  An image is a grid image[i][j][k] of shape (height, width,     *)
(* channels); a plane image[:, :, k] is a grid of numbers P[i][j].         *)

Shape(image) == <<Len(image), Len(image[1]), Len(image[1][1])>>

\* image[:, :, k-1]
Chan(image, k) ==
    [i \in DOMAIN image |-> [j \in DOMAIN image[i] |-> image[i][j][k]]]

\* image[:, :, 0:3]
Slice3(image) ==
    [i \in DOMAIN image |-> [j \in DOMAIN image[i] |->
        SubSeq(image[i][j], 1, 3)]]

\* np.stack([a, b, c], axis=-1)
Stack(a, b, c) ==
    [i \in DOMAIN a |-> [j \in DOMAIN a[i] |-> <<a[i][j], b[i][j], c[i][j]>>]]

\* numpy evaluates an expression on whole arrays, element by element: the
\* three operators below apply an expression at every index of a plane or
\* of a grid

\* an elementwise expression over planes shaped like P
PlaneOf(P, Op(_, _)) ==
    [i \in DOMAIN P |-> [j \in DOMAIN P[i] |-> Op(i, j)]]

\* an elementwise expression over grids shaped like G
GridOf(G, Op(_, _, _)) ==
    [i \in DOMAIN G |-> [j \in DOMAIN G[i] |->
        [k \in DOMAIN G[i][j] |-> Op(i, j, k)]]]

\* a binary elementwise operation on two equal-shaped grids
Elementwise(Op(_, _), A, B) ==
    GridOf(A, LAMBDA i, j, k: Op(A[i][j][k], B[i][j][k]))

----------------------------------------------------------------------------
(* Blend formulas and colour conversion                                    *)

\* screen with the base left uninverted
screen_uninverted(a, b) ==
    Elementwise(LAMBDA x, y: Sub(One, Mul(x, Sub(One, y))), a, b)

screen(a, b) ==
    Elementwise(LAMBDA x, y: Sub(One, Mul(Sub(One, x), Sub(One, y))), a, b)

\* 0.299 R + 0.587 G + 0.114 B of three numbers
Luma(r, g, b) ==
    Add(Add(Mul(Num(299, 1000), r), Mul(Num(587, 1000), g)),
        Mul(Num(114, 1000), b))

calculate_color_brightness(image) ==
    PlaneOf(image, LAMBDA i, j:
        Luma(image[i][j][1], image[i][j][2], image[i][j][3]))

\* np.max over the whole image in place of the per-pixel maximum
maxc_of_whole_image(image) ==
    LET per_pixel == {Maximum(Maximum(image[i][j][1], image[i][j][2]),
                              image[i][j][3]) :
                          i \in DOMAIN image, j \in DOMAIN image[1]}
        top == CHOOSE v \in per_pixel : \A u \in per_pixel : LessEq(u, v)
    IN  PlaneOf(image, LAMBDA i, j: top)

\* np.maximum(np.maximum(r, g), b) of the three channel planes
maxc_of(image) ==
    PlaneOf(image, LAMBDA i, j:
        Maximum(Maximum(image[i][j][1], image[i][j][2]), image[i][j][3]))

\* np.minimum(np.minimum(r, g), b)
minc_of(image) ==
    PlaneOf(image, LAMBDA i, j:
        Minimum(Minimum(image[i][j][1], image[i][j][2]), image[i][j][3]))

\* h[mask] = value[mask]: the masked assignment of one element
Assign(old, mask, value) == IF mask THEN value ELSE old

\* the hue with the operands of the G sector exchanged
hue_sector_g_swapped(r, g, b, maxc, c) ==
    LET mask == ~Eq(c, Zero)
        hR == Assign(Zero, mask /\ Eq(maxc, r), Div(Sub(g, b), c))
        hG == Assign(hR, mask /\ Eq(maxc, g), Add(Two, Div(Sub(r, b), c)))
        hB == Assign(hG, mask /\ Eq(maxc, b), Add(Four, Div(Sub(r, g), c)))
    IN  hB

\* the un-normalised hue of one pixel: three masked assignments, in the
\* order R, G, B, each overwriting the one before
hue_sector(r, g, b, maxc, c) ==
    LET mask == ~Eq(c, Zero)
        h0 == Zero
        hR == Assign(h0, mask /\ Eq(maxc, r), Div(Sub(g, b), c))
        hG == Assign(hR, mask /\ Eq(maxc, g), Add(Two, Div(Sub(b, r), c)))
        hB == Assign(hG, mask /\ Eq(maxc, b), Add(Four, Div(Sub(r, g), c)))
    IN  hB

rgb_to_hcl(image) ==
    LET r == Chan(image, 1)
        g == Chan(image, 2)
        b == Chan(image, 3)
        maxc == maxc_of(image)
        minc == minc_of(image)
        c == PlaneOf(maxc, LAMBDA i, j: Sub(maxc[i][j], minc[i][j]))
        h == PlaneOf(maxc, LAMBDA i, j:
                 Mod(Div(hue_sector(r[i][j], g[i][j], b[i][j],
                                    maxc[i][j], c[i][j]), Six), One))
        l == calculate_color_brightness(image)
    IN  Stack(h, c, l)

\* (r1, g1, b1) of one pixel: the sector of h_prime picks a permutation of
\* (c, x, 0); outside [0, 6) the zeros stay
sector_rgb1(h_prime, c, x) ==
    LET In(lo) == LessEq(Num(lo, 1), h_prime) /\ Less(h_prime, Num(lo + 1, 1))
    IN  IF In(0) THEN <<c, x, Zero>>
        ELSE IF In(1) THEN <<x, c, Zero>>
        ELSE IF In(2) THEN <<Zero, c, x>>
        ELSE IF In(3) THEN <<Zero, x, c>>
        ELSE IF In(4) THEN <<x, Zero, c>>
        ELSE IF In(5) THEN <<c, Zero, x>>
        ELSE <<Zero, Zero, Zero>>

\* the add factor without the selection on m + x
add_factor_unconditional(m, c, x) ==
    Sub(Add(Add(Mul(Two, m), c), x), Two)

\* the add factor ma of one pixel
add_factor(m, c, x) ==
    Where(Less(One, Add(m, x)),
          Sub(Add(Add(Mul(Two, m), c), x), Two),
          Div(Sub(Add(m, c), One), Two))

\* one channel of the result: too bright / too dark / normal, then clipped
final_channel(v1, m, c, ms, ma) ==
    Clip(Where(Less(One, Add(m, c)),
               Add(Add(v1, m), ma),
               Where(Less(m, Zero), Div(v1, Add(ms, epsilon)), Add(v1, m))),
         Zero, One)

\* the three channels r, g, b of one pixel
final_rgb(rgb1, m, c, ms, ma) ==
    <<final_channel(rgb1[1], m, c, ms, ma),
      final_channel(rgb1[2], m, c, ms, ma),
      final_channel(rgb1[3], m, c, ms, ma)>>

\* the adjustment m to the luma l, the scale factor ms and the add factor ma
\* of one pixel with sector triple rgb1, and the pixel they give
match_luma(rgb1, c, x, l) ==
    LET w == Luma(rgb1[1], rgb1[2], rgb1[3])
        m == Sub(l, w)
        ms == Where(Less(Zero, l), Div(w, l), epsilon)
    IN  final_rgb(rgb1, m, c, ms, add_factor(m, c, x))

\* the intermediate value X of one pixel
x_of(h_prime, c) == Mul(c, Sub(One, Abs(Sub(Mod(h_prime, Two), One))))

\* hcl_to_rgb on one pixel (h, c, l)
hcl_to_rgb_pixel(h, c, l) ==
    LET h_prime == Mul(h, Six)
        x == x_of(h_prime, c)
    IN  match_luma(sector_rgb1(h_prime, c, x), c, x, l)

hcl_to_rgb(hcl) ==
    [i \in DOMAIN hcl |-> [j \in DOMAIN hcl[i] |->
        hcl_to_rgb_pixel(hcl[i][j][1], hcl[i][j][2], hcl[i][j][3])]]

\* hue with the luma taken from the overlay
hue_overlay_luma(a, b) ==
    LET hcl1 == rgb_to_hcl(a)
        hcl2 == rgb_to_hcl(b)
    IN  hcl_to_rgb(Stack(Chan(hcl2, 1), Chan(hcl1, 2), Chan(hcl2, 3)))

hue(a, b) ==
    LET hcl1 == rgb_to_hcl(a)
        hcl2 == rgb_to_hcl(b)
    IN  hcl_to_rgb(Stack(Chan(hcl2, 1), Chan(hcl1, 2), Chan(hcl1, 3)))

saturation(a, b) ==
    LET hcl1 == rgb_to_hcl(a)
        hcl2 == rgb_to_hcl(b)
    IN  hcl_to_rgb(Stack(Chan(hcl1, 1), Chan(hcl2, 2), Chan(hcl1, 3)))

color(a, b) ==
    LET hcl1 == rgb_to_hcl(a)
        hcl2 == rgb_to_hcl(b)
    IN  hcl_to_rgb(Stack(Chan(hcl2, 1), Chan(hcl2, 2), Chan(hcl1, 3)))

luminosity(a, b) ==
    LET hcl1 == rgb_to_hcl(a)
        hcl2 == rgb_to_hcl(b)
    IN  hcl_to_rgb(Stack(Chan(hcl1, 1), Chan(hcl1, 2), Chan(hcl2, 3)))

\* elementwise selection of whole pixels: np.where(mask[:, :, None], a, b)
WherePixel(mask, a, b) ==
    GridOf(a, LAMBDA i, j, k: Where(mask[i][j], a[i][j][k], b[i][j][k]))

normal(a, b) == b

darken(a, b) == Elementwise(Minimum, a, b)

multiply(a, b) == Elementwise(Mul, a, b)

color_burn(a, b) ==
    Elementwise(LAMBDA x, y:
        Sub(One, Minimum(One, Div(Sub(One, x), Clip(y, epsilon, One)))), a, b)

linear_burn(a, b) ==
    Elementwise(LAMBDA x, y: Maximum(Zero, Sub(Add(x, y), One)), a, b)

darker_color(a, b) ==
    LET brightness_image1 == calculate_color_brightness(a)
        brightness_image2 == calculate_color_brightness(b)
        min_sum == PlaneOf(brightness_image1, LAMBDA i, j:
                       Minimum(brightness_image1[i][j], brightness_image2[i][j]))
        mask == PlaneOf(min_sum, LAMBDA i, j:
                    Eq(brightness_image1[i][j], min_sum[i][j]))
    IN  WherePixel(mask, a, b)

lighten(a, b) == Elementwise(Maximum, a, b)

\* color dodge without the epsilon guard
color_dodge_unguarded(a, b) ==
    Elementwise(LAMBDA x, y: Clip(Div(x, Sub(One, y)), Zero, One), a, b)

color_dodge(a, b) ==
    Elementwise(LAMBDA x, y:
        Clip(Div(x, Add(Sub(One, y), epsilon)), Zero, One), a, b)

linear_dodge(a, b) ==
    Elementwise(LAMBDA x, y: Clip(Add(x, y), Zero, One), a, b)

\* lighter color with the minimum of darker color left in
lighter_color_minimum(a, b) ==
    LET brightness_image1 == calculate_color_brightness(a)
        brightness_image2 == calculate_color_brightness(b)
        min_sum == PlaneOf(brightness_image1, LAMBDA i, j:
                       Minimum(brightness_image1[i][j], brightness_image2[i][j]))
        mask == PlaneOf(min_sum, LAMBDA i, j:
                    Eq(brightness_image1[i][j], min_sum[i][j]))
    IN  WherePixel(mask, a, b)

lighter_color(a, b) ==
    LET brightness_image1 == calculate_color_brightness(a)
        brightness_image2 == calculate_color_brightness(b)
        min_sum == PlaneOf(brightness_image1, LAMBDA i, j:
                       Maximum(brightness_image1[i][j], brightness_image2[i][j]))
        mask == PlaneOf(min_sum, LAMBDA i, j:
                    Eq(brightness_image1[i][j], min_sum[i][j]))
    IN  WherePixel(mask, a, b)

overlay(a, b) ==
    Elementwise(LAMBDA x, y:
        Where(Less(x, Half),
              Mul(Mul(Two, y), x),
              Sub(One, Mul(Mul(Two, Sub(One, y)), Sub(One, x)))), a, b)

soft_light(a, b) ==
    Elementwise(LAMBDA x, y:
        Where(LessEq(y, Half),
              Mul(x, Sub(One, Mul(Sub(One, Mul(Two, y)), Sub(One, x)))),
              Add(x, Mul(Sub(Mul(Two, y), One), Sub(Sqrt(x), x)))), a, b)

hard_light(a, b) ==
    Elementwise(LAMBDA x, y:
        Where(Less(y, Half),
              Mul(Mul(Two, y), x),
              Sub(One, Mul(Mul(Two, Sub(One, y)), Sub(One, x)))), a, b)

vivid_light(a, b) ==
    Elementwise(LAMBDA x, y:
        Where(LessEq(y, Half),
              Sub(One, Div(Sub(One, x), Add(Mul(Two, y), epsilon))),
              Div(x, Add(Mul(Two, Sub(One, y)), epsilon))), a, b)

linear_light(a, b) ==
    Elementwise(LAMBDA x, y: Sub(Add(x, Mul(Two, y)), One), a, b)

pin_light(a, b) ==
    Elementwise(LAMBDA x, y:
        Where(LessEq(y, Half),
              Minimum(x, Mul(Two, y)),
              Maximum(x, Mul(Two, Sub(y, Half)))), a, b)

hard_mix(a, b) ==
    Elementwise(LAMBDA x, y: Where(LessEq(One, Add(x, y)), One, Zero), a, b)

\* difference without the absolute value
difference_signed(a, b) ==
    Elementwise(Sub, Slice3(a), Slice3(b))

difference(a, b) ==
    Elementwise(LAMBDA x, y: Abs(Sub(x, y)), Slice3(a), Slice3(b))

exclusion(a, b) ==
    Elementwise(LAMBDA x, y:
        Abs(Sub(Add(x, y), Mul(Mul(Two, x), y))), a, b)

subtract(a, b) ==
    Elementwise(LAMBDA x, y: Clip(Sub(x, y), Zero, One), a, b)

divide(a, b) ==
    Elementwise(LAMBDA x, y: Div(x, Clip(y, epsilon, One)), a, b)

\* the mode tags of the if / elif chain of blend_images
SupportedModes ==
    {"normal", "darken", "multiply", "color burn", "linear burn",
     "darker color", "lighten", "screen", "color dodge", "linear dodge",
     "lighter color", "overlay", "soft light", "hard light", "vivid light",
     "linear light", "pin light", "hard mix", "difference", "exclusion",
     "subtract", "divide", "hue", "saturation", "color", "luminosity"}

\* blended_image as the if / elif chain sets it for a supported mode
blend(a, b, mode) ==
    CASE mode = "normal" -> normal(a, b)
      [] mode = "darken" -> darken(a, b)
      [] mode = "multiply" -> multiply(a, b)
      [] mode = "color burn" -> color_burn(a, b)
      [] mode = "linear burn" -> linear_burn(a, b)
      [] mode = "darker color" -> darker_color(a, b)
      [] mode = "lighten" -> lighten(a, b)
      [] mode = "screen" -> screen(a, b)
      [] mode = "color dodge" -> color_dodge(a, b)
      [] mode = "linear dodge" -> linear_dodge(a, b)
      [] mode = "lighter color" -> lighter_color(a, b)
      [] mode = "overlay" -> overlay(a, b)
      [] mode = "soft light" -> soft_light(a, b)
      [] mode = "hard light" -> hard_light(a, b)
      [] mode = "vivid light" -> vivid_light(a, b)
      [] mode = "linear light" -> linear_light(a, b)
      [] mode = "pin light" -> pin_light(a, b)
      [] mode = "hard mix" -> hard_mix(a, b)
      [] mode = "difference" -> difference(a, b)
      [] mode = "exclusion" -> exclusion(a, b)
      [] mode = "subtract" -> subtract(a, b)
      [] mode = "divide" -> divide(a, b)
      [] mode = "hue" -> hue(a, b)
      [] mode = "saturation" -> saturation(a, b)
      [] mode = "color" -> color(a, b)
      [] mode = "luminosity" -> luminosity(a, b)

\* the alpha blending with the two weights exchanged
alpha_blend_weights_swapped(a, blended, al) ==
    Elementwise(LAMBDA x, y: Add(Mul(al, x), Mul(Sub(One, al), y)), a, blended)

\* (1 - alpha) * image1 + alpha * blended_image
alpha_blend(a, blended, al) ==
    Elementwise(LAMBDA x, y: Add(Mul(Sub(One, al), x), Mul(al, y)), a, blended)

\* np.clip(blended_image, 0, 1)
clip_image(img) == GridOf(img, LAMBDA i, j, k: Clip(img[i][j][k], Zero, One))


----------------------------------------------------------------------------
(* Inputs                                                                  *)

\* channel values are the fractions k / Levels
Levels == 2

\* alpha values are the fractions k / AlphaSteps
AlphaSteps == 2

LevelNums == {Num(k, Levels) : k \in 0..Levels}

Alphas == {Num(k, AlphaSteps) : k \in 0..AlphaSteps}

Pixels == {<<r, g, b>> : r \in LevelNums, g \in LevelNums, b \in LevelNums}

\* a few RGB pixels for the grids of more than one pixel
Palette == {<<One, Zero, Zero>>, <<Zero, One, Half>>, <<Half, Half, Half>>}

\* the same with a fourth (alpha) channel
PaletteRGBA == {Append(p, a) : p \in Palette, a \in {One, Half}}

\* grids of shape (1, 1, c) and (1, 2, c)
Grid1(pixels) == {<<<<p>>>> : p \in pixels}
Grid2(pixels) == {<<<<p, q>>>> : p \in pixels, q \in pixels}

ImagePairs ==
    (Grid1(Pixels) \X Grid1(Pixels))
    \cup (Grid2(Palette) \X Grid2(Palette))
    \cup (Grid1(Palette) \X Grid2(Palette))
    \cup (Grid2(Palette) \X Grid1(Palette))
    \cup (Grid1(PaletteRGBA) \X Grid1(PaletteRGBA))
    \cup (Grid1(PaletteRGBA) \X Grid1(Palette))

Modes == SupportedModes \cup {"does not exist"}

None == "None"

----------------------------------------------------------------------------
(* blend_images(image1, image2, alpha, blend_mode)                         *)

Init ==
    /\ \E pair \in ImagePairs : image1 = pair[1] /\ image2 = pair[2]
    /\ alpha \in Alphas
    /\ blend_mode \in Modes
    /\ pc = "call"
    /\ result = None
    /\ raised = None
    /\ stdout = <<>>
    /\ hcl_image = None
    /\ heap = <<>>
    /\ refs = None
    /\ hcl_back = None

\* image1.shape != image2.shape: ValueError, before anything else
RaiseShapeMismatch ==
    /\ pc = "call"
    /\ Shape(image1) # Shape(image2)
    /\ raised' = "ValueError: Images must have the same dimensions for blending."
    /\ pc' = "raised"
    /\ UNCHANGED <<image1, image2, alpha, blend_mode, result, stdout, hcl_image,
                 heap, refs, hcl_back>>

\* the else branch reached without the shape check before it
SkipNotImplemented_unchecked ==
    /\ pc = "call"
    /\ blend_mode \notin SupportedModes
    /\ stdout' = Append(stdout, <<"not implemented yet: ", blend_mode>>)
    /\ result' = None
    /\ pc' = "returned"
    /\ UNCHANGED <<image1, image2, alpha, blend_mode, raised, hcl_image,
                 heap, refs, hcl_back>>

\* the else branch: print, set skipone, fall off the end (return None)
SkipNotImplemented ==
    /\ pc = "call"
    /\ Shape(image1) = Shape(image2)
    /\ blend_mode \notin SupportedModes
    /\ stdout' = Append(stdout, <<"not implemented yet: ", blend_mode>>)
    /\ result' = None
    /\ pc' = "returned"
    /\ UNCHANGED <<image1, image2, alpha, blend_mode, raised, hcl_image,
                 heap, refs, hcl_back>>

\* the alpha blending and the clipping of a blended image: the sum does not
\* broadcast when the blended image lost image1's fourth channel
alpha_composite(a, blended, al) ==
    IF Shape(blended) # Shape(a)
    THEN [pc |-> "raised", result |-> None,
          raised |-> "ValueError: operands could not be broadcast together"]
    ELSE [pc |-> "returned", result |-> clip_image(alpha_blend(a, blended, al)),
          raised |-> None]

\* how the call ends
Finish(outcome) ==
    /\ pc' = outcome.pc
    /\ result' = outcome.result
    /\ raised' = outcome.raised

\* a supported mode: the formula, the alpha blending, the clipping, return
BlendAndReturn ==
    /\ pc = "call"
    /\ Shape(image1) = Shape(image2)
    /\ blend_mode \in SupportedModes
    /\ Finish(alpha_composite(image1, blend(image1, image2, blend_mode), alpha))
    /\ UNCHANGED <<image1, image2, alpha, blend_mode, stdout, hcl_image,
                 heap, refs, hcl_back>>

blend_images ==
    \/ RaiseShapeMismatch
    \/ SkipNotImplemented
    \/ BlendAndReturn

Next == blend_images

Spec == Init /\ [][Next]_vars

\* what blend_images(a, b, al, mode) returns for a supported mode (None when
\* the alpha blending raises)
call_result(a, b, al, mode) == alpha_composite(a, blend(a, b, mode), al).result

----------------------------------------------------------------------------
(* rgb_to_hcl followed by hcl_to_rgb on one grid                           *)

\* channel values of the conversion's inputs are the fractions k / HclLevels
HclLevels == 4

HclNums == {Num(k, HclLevels) : k \in 0..HclLevels}

HclPixels == {<<r, g, b>> : r \in HclNums, g \in HclNums, b \in HclNums}

\* 1e-20, a channel value in [0, 1] below the rounding unit of the floats:
\* 1 - 1e-20 and 1 + 1e-20 are 1
tiny == <<1, 1, 2>>

\* the pixels with channels 0, 1e-20 and 1
TinyPixels ==
    {<<r, g, b>> : r \in {Zero, tiny, One}, g \in {Zero, tiny, One},
                   b \in {Zero, tiny, One}}

InitHCL ==
    /\ image1 \in Grid1(HclPixels \cup TinyPixels)
    /\ image2 = None
    /\ alpha = None
    /\ blend_mode = None
    /\ pc = "rgb"
    /\ result = None
    /\ raised = None
    /\ stdout = <<>>
    /\ hcl_image = None
    /\ heap = <<>>
    /\ refs = None
    /\ hcl_back = None

CallRgbToHcl ==
    /\ pc = "rgb"
    /\ hcl_image' = rgb_to_hcl(image1)
    /\ pc' = "hcl"
    /\ UNCHANGED <<image1, image2, alpha, blend_mode, result, raised, stdout,
                 heap, refs, hcl_back>>

CallHclToRgb ==
    /\ pc = "hcl"
    /\ result' = hcl_to_rgb(hcl_image)
    /\ pc' = "rgb_back"
    /\ UNCHANGED <<image1, image2, alpha, blend_mode, hcl_image, raised, stdout,
                 heap, refs, hcl_back>>

NextHCL == CallRgbToHcl \/ CallHclToRgb

SpecHCL == InitHCL /\ [][NextHCL]_vars

----------------------------------------------------------------------------
(* blend_images of src/blend_mode_functions.py, the older module of the    *)
(* same name with eight modes                                              *)

\* np.sum(image, axis=-1): the sum of all the channels of every pixel
RECURSIVE SumOf(_, _)
SumOf(p, k) == IF k = 0 THEN Zero ELSE Add(SumOf(p, k - 1), p[k])

legacy_sum(image) ==
    PlaneOf(image, LAMBDA i, j: SumOf(image[i][j], Len(image[i][j])))

\* mask = image1 < 128
legacy_overlay(a, b) ==
    Elementwise(LAMBDA x, y:
        Where(Less(x, Num(128, 1)),
              Mul(Mul(Two, x), y),
              Sub(One, Mul(Mul(Two, Sub(One, x)), Sub(One, y)))), a, b)

\* 1e-10 is the value of epsilon
legacy_color_burn(a, b) ==
    Elementwise(LAMBDA x, y:
        Sub(One, Minimum(One, Div(Sub(One, y), Add(x, epsilon)))), a, b)

legacy_darker_color(a, b) ==
    LET sum1 == legacy_sum(a)
        sum2 == legacy_sum(b)
        min_sum == PlaneOf(sum1, LAMBDA i, j: Minimum(sum1[i][j], sum2[i][j]))
        mask == PlaneOf(min_sum, LAMBDA i, j: Eq(sum1[i][j], min_sum[i][j]))
    IN  WherePixel(mask, a, b)

\* the mode tags of the older if / elif chain
LegacyModes ==
    {"normal", "multiply", "screen", "overlay", "darken", "color burn",
     "linear burn", "darker color"}

\* blended_image as the older chain sets it
legacy_blend(a, b, mode) ==
    CASE mode = "normal" -> b
      [] mode = "multiply" -> Elementwise(Mul, a, b)
      [] mode = "screen" ->
            Elementwise(LAMBDA x, y:
                Sub(One, Mul(Sub(One, x), Sub(One, y))), a, b)
      [] mode = "overlay" -> legacy_overlay(a, b)
      [] mode = "darken" -> Elementwise(Minimum, a, b)
      [] mode = "color burn" -> legacy_color_burn(a, b)
      [] mode = "linear burn" ->
            Elementwise(LAMBDA x, y: Maximum(Zero, Sub(Add(x, y), One)), a, b)
      [] mode = "darker color" -> legacy_darker_color(a, b)

LegacyRaiseShapeMismatch ==
    /\ pc = "call"
    /\ Shape(image1) # Shape(image2)
    /\ raised' = "ValueError: Images must have the same dimensions for blending."
    /\ pc' = "raised"
    /\ UNCHANGED <<image1, image2, alpha, blend_mode, result, stdout, hcl_image,
                   heap, refs, hcl_back>>

\* no branch of the chain taken and no else: blended_image is unbound when
\* the alpha blending reads it
LegacyRaiseUnbound ==
    /\ pc = "call"
    /\ Shape(image1) = Shape(image2)
    /\ blend_mode \notin LegacyModes
    /\ raised' = "UnboundLocalError: blended_image"
    /\ pc' = "raised"
    /\ UNCHANGED <<image1, image2, alpha, blend_mode, result, stdout, hcl_image,
                   heap, refs, hcl_back>>

\* one of the eight modes: the formula, the alpha blending, the clipping
LegacyBlendAndReturn ==
    /\ pc = "call"
    /\ Shape(image1) = Shape(image2)
    /\ blend_mode \in LegacyModes
    /\ result' = clip_image(alpha_blend(image1,
                     legacy_blend(image1, image2, blend_mode), alpha))
    /\ pc' = "returned"
    /\ UNCHANGED <<image1, image2, alpha, blend_mode, raised, stdout, hcl_image,
                   heap, refs, hcl_back>>

legacy_blend_images ==
    \/ LegacyRaiseShapeMismatch
    \/ LegacyRaiseUnbound
    \/ LegacyBlendAndReturn

SpecLegacy == Init /\ [][legacy_blend_images]_vars

----------------------------------------------------------------------------
(* hcl_to_rgb on an HCL grid, then rgb_to_hcl on its result                *)

\* h_prime = h * 6: the hue wheel has six sectors
SectorCount == 6

\* the hues at the start and in the middle of every sector
Hues == {Num(k, 2 * SectorCount) : k \in 0..(2 * SectorCount - 1)}

\* the luma of the sector triple of hue h and chroma c
sector_luma(h, c) ==
    Luma(sector_rgb1(Mul(h, Six), c, x_of(Mul(h, Six), c))[1],
         sector_rgb1(Mul(h, Six), c, x_of(Mul(h, Six), c))[2],
         sector_rgb1(Mul(h, Six), c, x_of(Mul(h, Six), c))[3])

\* the lumas k / HclLevels and, so that the adjustment m itself takes the
\* values k / HclLevels, the sector luma plus k / HclLevels
Lumas(h, c) ==
    HclNums \cup {l \in {Add(sector_luma(h, c), m) : m \in HclNums} :
                     LessEq(l, One)}

HclTriples ==
    UNION {{<<h, c, l>> : l \in Lumas(h, c)} : h \in Hues, c \in HclNums}

InitFromHCL ==
    /\ hcl_image \in Grid1(HclTriples)
    /\ image1 = None
    /\ image2 = None
    /\ alpha = None
    /\ blend_mode = None
    /\ pc = "hcl"
    /\ result = None
    /\ raised = None
    /\ stdout = <<>>
    /\ heap = <<>>
    /\ refs = None
    /\ hcl_back = None

\* rgb_to_hcl on the grid hcl_to_rgb returned
CallRgbToHclBack ==
    /\ pc = "rgb_back"
    /\ hcl_back' = rgb_to_hcl(result)
    /\ pc' = "hcl_back"
    /\ UNCHANGED <<image1, image2, alpha, blend_mode, hcl_image, result, raised,
                   stdout, heap, refs>>

NextFromHCL == CallHclToRgb \/ CallRgbToHclBack

SpecFromHCL == InitFromHCL /\ [][NextFromHCL]_vars

----------------------------------------------------------------------------
(* Arrays as objects.  mem[id] is the buffer of array id; a reference      *)
(* names a buffer and either the whole of it (chan = 0) or the view        *)
(* a[:, :, chan - 1] of one channel.  An arithmetic expression, np.where,  *)
(* np.clip, np.stack and np.zeros_like make a new array, a slice makes a   *)
(* view, a plain assignment binds a name to an existing array, and a       *)
(* masked assignment writes into the buffer of its target.                 *)

Ref(buf, chan) == [buf |-> buf, chan |-> chan]

\* the reference of a name bound to no array (None)
NoArray == Ref(0, 0)

\* a[:, :, k-1]: a view onto the buffer of a
View(r, k) == Ref(r.buf, k)

\* the value read through a reference
Load(mem, r) == IF r.chan = 0 THEN mem[r.buf] ELSE Chan(mem[r.buf], r.chan)

\* a new array holding value; it is the last buffer of the memory
Alloc(mem, value) == Append(mem, value)

\* the array allocated last
Top(mem) == Ref(Len(mem), 0)

\* the buffer old after a masked assignment through a reference of channel
\* selector chan
Stored(old, chan, mask, value) ==
    IF chan = 0
    THEN [i \in DOMAIN old |-> [j \in DOMAIN old[i] |->
             Assign(old[i][j], mask[i][j], value[i][j])]]
    ELSE [i \in DOMAIN old |-> [j \in DOMAIN old[i] |->
             [old[i][j] EXCEPT ![chan] = Assign(@, mask[i][j], value[i][j])]]]

\* target[mask] = value[mask], written into the buffer behind target
StoreMasked(mem, target, mask, value) ==
    [mem EXCEPT ![target.buf] = Stored(@, target.chan, mask, value)]

\* np.zeros_like of a plane
zeros_like(P) == PlaneOf(P, LAMBDA i, j: Zero)

\* h[mask & (maxc == ch)] = offset + (p[...] - q[...]) / c[...]: ch, p and q
\* are views of the image, read when the statement runs
assign_hue(mem, h, mask, maxc, c, ch, offset, p, q) ==
    StoreMasked(mem, h,
        PlaneOf(c, LAMBDA i, j:
            mask[i][j] /\ Eq(maxc[i][j], Load(mem, ch)[i][j])),
        PlaneOf(c, LAMBDA i, j:
            Add(offset, Div(Sub(Load(mem, p)[i][j], Load(mem, q)[i][j]),
                            c[i][j]))))

\* h = np.zeros_like(maxc)
hue_buffer(mem, image, maxc) ==
    [mem |-> Alloc(mem, zeros_like(maxc)), h |-> Ref(Len(mem) + 1, 0)]

\* the three masked hue assignments on the array h, then the normalisation,
\* the luma and the stacking into a new array
fill_hue(buffer, image, maxc, c) ==
    LET r == View(image, 1)
        g == View(image, 2)
        b == View(image, 3)
        mask == PlaneOf(c, LAMBDA i, j: ~Eq(c[i][j], Zero))
        stored ==
            assign_hue(
                assign_hue(
                    assign_hue(buffer.mem, buffer.h, mask, maxc, c,
                               r, Zero, g, b),
                    buffer.h, mask, maxc, c, g, Two, b, r),
                buffer.h, mask, maxc, c, b, Four, r, g)
    IN  Alloc(stored,
              Stack(PlaneOf(c, LAMBDA i, j:
                        Mod(Div(Load(stored, buffer.h)[i][j], Six), One)),
                    c,
                    calculate_color_brightness(Load(stored, image))))

\* rgb_to_hcl on the array image of memory mem: the memory it leaves, whose
\* last array is the returned hcl_image
rgb_to_hcl_on(mem, image) ==
    LET maxc == maxc_of(Load(mem, image))
        minc == minc_of(Load(mem, image))
        c == PlaneOf(maxc, LAMBDA i, j: Sub(maxc[i][j], minc[i][j]))
    IN  fill_hue(hue_buffer(mem, image, maxc), image, maxc, c)

\* the permutation of (c, x, 0) the sector [lo, lo + 1) assigns to r1, g1, b1
SectorOrder ==
    <<  <<"c", "x", "0">>, <<"x", "c", "0">>, <<"0", "c", "x">>,
        <<"0", "x", "c">>, <<"x", "0", "c">>, <<"c", "0", "x">>  >>

\* r1[mask], g1[mask], b1[mask] = ... for the sector [lo, lo + 1): the right
\* hand side is read first, then the three arrays are written
assign_sector(mem, rgb1, h_prime, c, x, lo) ==
    LET mask == PlaneOf(h_prime, LAMBDA i, j:
                    LessEq(Num(lo, 1), h_prime[i][j])
                    /\ Less(h_prime[i][j], Num(lo + 1, 1)))
        value(tag) == IF tag = "c" THEN Load(mem, c)
                      ELSE IF tag = "x" THEN x
                      ELSE zeros_like(x)
        order == SectorOrder[lo + 1]
    IN  [mem EXCEPT
            ![rgb1[1].buf] = Stored(@, rgb1[1].chan, mask, value(order[1])),
            ![rgb1[2].buf] = Stored(@, rgb1[2].chan, mask, value(order[2])),
            ![rgb1[3].buf] = Stored(@, rgb1[3].chan, mask, value(order[3]))]

\* the six sector statements in the order of the code
assign_sectors(mem, rgb1, h_prime, c, x) ==
    assign_sector(
      assign_sector(
        assign_sector(
          assign_sector(
            assign_sector(
              assign_sector(mem, rgb1, h_prime, c, x, 0),
              rgb1, h_prime, c, x, 1),
            rgb1, h_prime, c, x, 2),
          rgb1, h_prime, c, x, 3),
        rgb1, h_prime, c, x, 4),
      rgb1, h_prime, c, x, 5)

\* m, ms, ma and the final channels from the arrays as the sector statements
\* left them, stacked into a new array
stack_rgb(mem, rgb1, hcl, x) ==
    Alloc(mem,
        [i \in DOMAIN x |-> [j \in DOMAIN x[i] |->
            match_luma(<<Load(mem, rgb1[1])[i][j], Load(mem, rgb1[2])[i][j],
                         Load(mem, rgb1[3])[i][j]>>,
                       Load(mem, View(hcl, 2))[i][j], x[i][j],
                       Load(mem, View(hcl, 3))[i][j])]])

\* hcl_to_rgb on the array hcl of memory mem: the memory it leaves, whose
\* last array is the returned rgb_image
hcl_to_rgb_on(mem, hcl) ==
    LET h == Load(mem, View(hcl, 1))
        h_prime == PlaneOf(h, LAMBDA i, j: Mul(h[i][j], Six))
        x == PlaneOf(h, LAMBDA i, j:
                 x_of(h_prime[i][j], Load(mem, View(hcl, 2))[i][j]))
        rgb1 == <<Ref(Len(mem) + 1, 0), Ref(Len(mem) + 2, 0),
                  Ref(Len(mem) + 3, 0)>>
    IN  stack_rgb(
            assign_sectors(
                mem \o <<zeros_like(h), zeros_like(h), zeros_like(h)>>,
                rgb1, h_prime, View(hcl, 2), x),
            rgb1, hcl, x)

\* the modes computed in HCL and, for each, which of hcl1 and hcl2 supplies
\* the hue, the chroma and the luma of blended_hcl
HclModes == {"hue", "saturation", "color", "luminosity"}

HclSources(mode) ==
    CASE mode = "hue" -> <<2, 1, 1>>
      [] mode = "saturation" -> <<1, 2, 1>>
      [] mode = "color" -> <<2, 2, 1>>
      [] mode = "luminosity" -> <<1, 1, 2>>

\* np.stack of one channel view of hcl1 or hcl2 per component
stack_hcl(mem, hcl1, hcl2, sources) ==
    Alloc(mem,
        Stack(Load(mem, View(IF sources[1] = 1 THEN hcl1 ELSE hcl2, 1)),
              Load(mem, View(IF sources[2] = 1 THEN hcl1 ELSE hcl2, 2)),
              Load(mem, View(IF sources[3] = 1 THEN hcl1 ELSE hcl2, 3))))

\* hue / saturation / color / luminosity on two arrays: the memory after
\* the two conversions, whose last two arrays are hcl1 and hcl2 ...
convert_both(mem, a, b) == rgb_to_hcl_on(rgb_to_hcl_on(mem, a), b)

\* ... after the stacking of blended_hcl (each conversion left its array h
\* and then the array it returned) ...
stack_blended_hcl(mem, sources) ==
    stack_hcl(mem, Ref(Len(mem) - 2, 0), Ref(Len(mem), 0), sources)

\* ... and after the conversion back
hcl_mode_on(mem, a, b, mode) ==
    LET stacked == stack_blended_hcl(convert_both(mem, a, b), HclSources(mode))
    IN  hcl_to_rgb_on(stacked, Top(stacked))

\* the if / elif chain: the memory it leaves and the array blended_image is
\* bound to; mode normal binds it to image2 itself
dispatch_on(mem, a, b, mode) ==
    IF mode = "normal" THEN [mem |-> mem, blended_image |-> b]
    ELSE LET after == IF mode \in HclModes THEN hcl_mode_on(mem, a, b, mode)
                      ELSE Alloc(mem, blend(Load(mem, a), Load(mem, b), mode))
         IN  [mem |-> after, blended_image |-> Top(after)]

\* the alpha blending written into the array of blended_image
alpha_blend_in_place(d, a, al) ==
    [mem |-> [d.mem EXCEPT ![d.blended_image.buf] =
                 alpha_blend(Load(d.mem, a), Load(d.mem, d.blended_image), al)],
     blended_image |-> d.blended_image]

\* blended_image = (1 - alpha) * image1 + alpha * blended_image: a new array
alpha_blend_on(d, a, al) ==
    [mem |-> Alloc(d.mem,
                   alpha_blend(Load(d.mem, a), Load(d.mem, d.blended_image), al)),
     blended_image |-> Ref(Len(d.mem) + 1, 0)]

\* blended_image = np.clip(blended_image, 0, 1): a new array
clip_on(d) ==
    [mem |-> Alloc(d.mem, clip_image(Load(d.mem, d.blended_image))),
     blended_image |-> Ref(Len(d.mem) + 1, 0)]

\* return blended_image
return_on(d) ==
    [mem |-> d.mem, pc |-> "returned", result |-> d.blended_image,
     stdout |-> <<>>, raised |-> None]

\* the end of a supported mode: the alpha blending (which raises when the
\* shapes do not broadcast), the clipping, the return
composite_on(d, a, al) ==
    IF Shape(Load(d.mem, d.blended_image)) # Shape(Load(d.mem, a))
    THEN [mem |-> d.mem, pc |-> "raised", result |-> NoArray, stdout |-> <<>>,
          raised |-> "ValueError: operands could not be broadcast together"]
    ELSE return_on(clip_on(alpha_blend_on(d, a, al)))

\* blend_images on the arrays a and b of memory mem
blend_images_on(mem, a, b, al, mode) ==
    IF Shape(Load(mem, a)) # Shape(Load(mem, b))
    THEN [mem |-> mem, pc |-> "raised", result |-> NoArray, stdout |-> <<>>,
          raised |-> "ValueError: Images must have the same dimensions for blending."]
    ELSE IF mode \notin SupportedModes
    THEN [mem |-> mem, pc |-> "returned", result |-> NoArray,
          stdout |-> <<<<"not implemented yet: ", mode>>>>, raised |-> None]
    ELSE composite_on(dispatch_on(mem, a, b, mode), a, al)

\* the value behind a returned reference
ValueOf(mem, r) == IF r = NoArray THEN None ELSE Load(mem, r)

\* the caller's two arrays: two objects, or one object passed twice
InitArrays ==
    \E shared \in BOOLEAN :
        /\ shared => image1 = image2
        /\ heap = IF shared THEN <<image1>> ELSE <<image1, image2>>
        /\ refs = [image1 |-> Ref(1, 0),
                   image2 |-> IF shared THEN Ref(1, 0) ELSE Ref(2, 0),
                   hcl_image |-> NoArray, result |-> NoArray]

ObjectPairs ==
    (Grid1(Palette) \X Grid1(Palette))
    \cup (Grid2(Palette) \X Grid2(Palette))
    \cup (Grid1(Palette) \X Grid2(Palette))
    \cup (Grid1(PaletteRGBA) \X Grid1(PaletteRGBA))

\* a caller about to call blend_images(image1, image2, alpha, blend_mode)
InitBlendObjects ==
    /\ \E pair \in ObjectPairs : image1 = pair[1] /\ image2 = pair[2]
    /\ alpha \in Alphas
    /\ blend_mode \in Modes
    /\ pc = "call"
    /\ InitArrays

\* a caller about to call rgb_to_hcl(image1)
InitConvertObjects ==
    /\ image1 \in Grid1(Pixels) \cup Grid2(Palette)
    /\ image2 = None
    /\ alpha = None
    /\ blend_mode = None
    /\ pc = "rgb"
    /\ heap = <<image1>>
    /\ refs = [image1 |-> Ref(1, 0), image2 |-> NoArray,
               hcl_image |-> NoArray, result |-> NoArray]

InitObjects ==
    /\ InitBlendObjects \/ InitConvertObjects
    /\ result = None
    /\ raised = None
    /\ stdout = <<>>
    /\ hcl_image = None
    /\ hcl_back = None

\* how a call of blend_images ends, and the memory it leaves
FinishOn(outcome) ==
    /\ heap' = outcome.mem
    /\ refs' = [refs EXCEPT !.result = outcome.result]
    /\ result' = ValueOf(outcome.mem, outcome.result)
    /\ pc' = outcome.pc
    /\ raised' = outcome.raised
    /\ stdout' = stdout \o outcome.stdout

CallBlendImagesOn ==
    /\ pc = "call"
    /\ FinishOn(blend_images_on(heap, refs.image1, refs.image2, alpha, blend_mode))
    /\ UNCHANGED <<image1, image2, alpha, blend_mode, hcl_image, hcl_back>>

\* the memory a conversion leaves; its last array is what it returned
Returning(mem, name) ==
    /\ heap' = mem
    /\ refs' = [refs EXCEPT ![name] = Top(mem)]

CallRgbToHclOn ==
    /\ pc = "rgb"
    /\ Returning(rgb_to_hcl_on(heap, refs.image1), "hcl_image")
    /\ hcl_image' = Load(heap', refs'.hcl_image)
    /\ pc' = "hcl"
    /\ UNCHANGED <<image1, image2, alpha, blend_mode, result, raised, stdout,
                 hcl_back>>

CallHclToRgbOn ==
    /\ pc = "hcl"
    /\ Returning(hcl_to_rgb_on(heap, refs.hcl_image), "result")
    /\ result' = Load(heap', refs'.result)
    /\ pc' = "rgb_back"
    /\ UNCHANGED <<image1, image2, alpha, blend_mode, hcl_image, raised, stdout,
                 hcl_back>>

NextObjects == CallBlendImagesOn \/ CallRgbToHclOn \/ CallHclToRgbOn

SpecObjects == InitObjects /\ [][NextObjects]_vars

----------------------------------------------------------------------------
(* Properties                                                              *)

\* the positions (i, j) of a grid
Positions(image) == {<<i, j>> : i \in DOMAIN image, j \in DOMAIN image[1]}

\* a call with a supported mode has returned a grid
Returned == pc = "returned" /\ blend_mode \in SupportedModes

\* every value of a grid is a finite number
AllFinite(image) ==
    \A i \in DOMAIN image : \A j \in DOMAIN image[i] :
        \A k \in DOMAIN image[i][j] : IsFinite(image[i][j][k])

\* every value of a grid lies in [0, 1]
InUnitRange(image) ==
    \A i \in DOMAIN image : \A j \in DOMAIN image[i] :
        \A k \in DOMAIN image[i][j] :
            LessEq(Zero, image[i][j][k]) /\ LessEq(image[i][j][k], One)

\* the modes whose formula can leave [0, 1]
UnclippedModes == {"linear light", "vivid light", "divide"}

\* C1 as stated: a call with alpha = 0 returns image1, and a call with
\* alpha = 1 returns the unclipped value of the mode's formula.
C1_AlphaEndpointsUnclipped ==
    Returned =>
        /\ alpha = Zero => result = image1
        /\ alpha = One => result = blend(image1, image2, blend_mode)

\* C1 amended: a call with alpha = 0 returns image1; a call with alpha = 1
\* returns the mode's formula value clipped to [0, 1], which is the formula
\* value itself for every mode but linear light, vivid light and divide.
C1_AlphaEndpointsClipped ==
    Returned =>
        /\ alpha = Zero => result = image1
        /\ alpha = One =>
            /\ result = clip_image(blend(image1, image2, blend_mode))
            /\ blend_mode \notin UnclippedModes =>
                   result = blend(image1, image2, blend_mode)

\* a call with alpha = 1 has returned a clipped value that differs from the
\* formula's and from image1
C1_Witness ==
    /\ Returned
    /\ alpha = One
    /\ blend_mode = "linear light"
    /\ result # blend(image1, image2, blend_mode)
    /\ result = clip_image(blend(image1, image2, blend_mode))
    /\ result # image1

\* the chroma and the luma of the pixel of a one-pixel grid
ChromaOf(image) == rgb_to_hcl(image)[1][1][2]
LumaOf(image) == rgb_to_hcl(image)[1][1][3]

\* two numbers differ by less than the tolerance 1e-6 of the contracts
Within(x, y) == Less(Abs(Sub(x, y)), Num(1, 1000000))

\* two grids of one shape are equal within the tolerance
SameWithin(a, b) ==
    \A i \in DOMAIN a : \A j \in DOMAIN a[i] : \A k \in DOMAIN a[i][j] :
        Within(a[i][j][k], b[i][j][k])

\* C2: rgb_to_hcl then hcl_to_rgb gives back, within 1e-6, every pixel of
\* chroma > 0 and luma > 0, in every hue sector and on the sector boundaries.
C2_RoundTrip ==
    (pc = "rgb_back" /\ Less(Zero, ChromaOf(image1)) /\ Less(Zero, LumaOf(image1)))
        => SameWithin(result, image1)

\* a pixel on a sector boundary (two channels tie for the maximum, the
\* scaled hue is the integer 3) has made the round trip
C2_Witness ==
    /\ pc = "rgb_back"
    /\ Less(Zero, ChromaOf(image1))
    /\ hcl_image[1][1][1] = Half
    /\ image1[1][1][2] = image1[1][1][3]
    /\ result = image1

\* C3 as stated: a call with a mode tag outside the formula table ends by
\* signalling a condition the caller can catch, not by returning a value.
C3_UnsupportedModeSignalled ==
    (pc # "call" /\ Shape(image1) = Shape(image2)
         /\ blend_mode \notin SupportedModes)
        => (pc = "raised" /\ raised # None)

\* C4: when the shapes differ the call raises the shape-mismatch error and
\* nothing else happens: no mode is dispatched (nothing is printed for an
\* unsupported tag), no formula is evaluated, no grid is returned.
C4_ShapeMismatchFirst ==
    (pc # "call" /\ Shape(image1) # Shape(image2)) =>
        /\ pc = "raised"
        /\ raised = "ValueError: Images must have the same dimensions for blending."
        /\ result = None
        /\ stdout = <<>>

\* a call with differing shapes and an unsupported tag has raised the
\* shape-mismatch error
C4_Witness ==
    /\ pc = "raised"
    /\ Shape(image1) # Shape(image2)
    /\ blend_mode \notin SupportedModes
    /\ alpha = Half
    /\ stdout = <<>>

\* the luma-weighted brightness of pixel (i, j)
Brightness(image, i, j) == calculate_color_brightness(image)[i][j]

\* C5: at alpha = 1, darker color returns for every pixel the whole triple
\* of the pixel of lower brightness and lighter color that of the pixel of
\* higher brightness; on equal brightness both return the base pixel.
C5_WholePixelSelection ==
    (Returned /\ alpha = One /\ blend_mode \in {"darker color", "lighter color"})
    => \A pos \in Positions(image1) :
        LET i == pos[1]
            j == pos[2]
            b1 == Brightness(image1, i, j)
            b2 == Brightness(image2, i, j)
            lower == IF Less(b2, b1) THEN image2[i][j] ELSE image1[i][j]
            higher == IF Less(b1, b2) THEN image2[i][j] ELSE image1[i][j]
        IN  /\ result[i][j] \in {image1[i][j], image2[i][j]}
            /\ blend_mode = "darker color" => result[i][j] = lower
            /\ blend_mode = "lighter color" => result[i][j] = higher

\* lighter color has returned the overlay pixel, which is the brighter one
\* and shares no channel position with a mix of the two
C5_Witness ==
    /\ Returned
    /\ alpha = One
    /\ blend_mode = "lighter color"
    /\ Less(Brightness(image1, 1, 1), Brightness(image2, 1, 1))
    /\ Less(image2[1][1][1], image1[1][1][1])
    /\ result[1][1] = image2[1][1]
    /\ result[1][1] # image1[1][1]

\* C6: for every supported mode and alpha, and every input including
\* channels 0 and 1, chroma 0 and luma 0, no selected quotient has a zero
\* denominator: the formula's value holds no nan and no infinity, and every
\* value of the returned grid is a finite number in [0, 1].
C6_FiniteInUnitRange ==
    Returned =>
        /\ AllFinite(blend(image1, image2, blend_mode))
        /\ AllFinite(result)
        /\ InUnitRange(result)

\* a division guarded by epsilon has been made with a zero operand: color
\* dodge of a black base channel over a white overlay channel
C6_Witness ==
    /\ Returned
    /\ blend_mode = "color dodge"
    /\ alpha = Half
    /\ image1[1][1][1] = Zero
    /\ image2[1][1][1] = One
    /\ image1[1][1][2] = One
    /\ image2[1][1][2] = One
    /\ result[1][1][1] = Zero
    /\ result[1][1][2] = One

\* the modes the commutativity contract names
CommutativeModes ==
    {"multiply", "screen", "difference", "exclusion", "linear dodge"}

\* C7: for multiply, screen, difference, exclusion and linear dodge a call
\* with alpha = 1 returns the same grid with the two images exchanged.
C7_Commutative ==
    (Returned /\ alpha = One /\ blend_mode \in CommutativeModes)
        => result = call_result(image2, image1, One, blend_mode)

\* such a call has returned for two different images
C7_Witness ==
    /\ Returned
    /\ alpha = One
    /\ blend_mode = "difference"
    /\ image1 # image2
    /\ result # image1
    /\ result # image2
    /\ result = call_result(image2, image1, One, blend_mode)

\* a grid of one row with the pixel at column j replaced
WithPixel(image, j, p) == <<[image[1] EXCEPT ![j] = p]>>

\* C8: the value returned at a position depends only on the two input
\* pixels at that position: the call whose inputs hold the reference pixels
\* at the other position returns the same pixel there, so any two calls
\* whose inputs agree at a position return the same pixel at it.
C8_PixelIndependence ==
    (Returned /\ Shape(image1) = <<1, 2, 3>>) =>
        \A j \in 1..2 :
            call_result(WithPixel(image1, 3 - j, <<One, Zero, Zero>>),
                        WithPixel(image2, 3 - j, <<Zero, One, Half>>),
                        alpha, blend_mode)[1][j] = result[1][j]

\* a mode that reduces over a pixel's channels has returned for grids of two
\* different pixels
C8_Witness ==
    /\ Returned
    /\ Shape(image1) = <<1, 2, 3>>
    /\ blend_mode = "saturation"
    /\ alpha = One
    /\ image1[1][1] # image1[1][2]
    /\ image2[1][1] # image2[1][2]
    /\ result[1][1] # result[1][2]
    /\ result # image1

\* every pixel has the same chroma in the two grids
SameChroma(a, b) ==
    \A pos \in Positions(a) :
        rgb_to_hcl(a)[pos[1]][pos[2]][2] = rgb_to_hcl(b)[pos[1]][pos[2]][2]

\* C9: when every pixel has the same chroma in base and overlay, mode hue
\* and mode color return identical grids.
C9_HueEqualsColor ==
    (Returned /\ blend_mode = "hue" /\ Shape(image1)[3] = 3
         /\ SameChroma(image1, image2))
        => result = call_result(image1, image2, alpha, "color")

\* mode hue has returned for two different rainbow pixels of chroma 1
C9_Witness ==
    /\ Returned
    /\ blend_mode = "hue"
    /\ alpha = One
    /\ image1 = <<<<<<One, Zero, Zero>>>>>>
    /\ image2 = <<<<<<Zero, One, Half>>>>>>
    /\ SameChroma(image1, image2)
    /\ result # image1
    /\ result = call_result(image1, image2, alpha, "color")

\* the grid of a's shape with every value v
Constant(a, v) == GridOf(a, LAMBDA i, j, k: v)

\* C10: with alpha = 1, multiply over an all-black base returns the
\* all-black grid and screen over an all-white base the all-white grid.
C10_AbsorbingElements ==
    (Returned /\ alpha = One) =>
        /\ (blend_mode = "multiply" /\ image1 = Constant(image1, Zero))
               => result = Constant(image1, Zero)
        /\ (blend_mode = "screen" /\ image1 = Constant(image1, One))
               => result = Constant(image1, One)

\* screen over an all-white base and an overlay that is not white
C10_Witness ==
    /\ Returned
    /\ alpha = One
    /\ blend_mode = "screen"
    /\ image1 = Constant(image1, One)
    /\ image2 = <<<<<<Zero, Half, One>>>>>>
    /\ result = image1

\* the buffers of the arrays the caller passed in
InputBuffers ==
    {refs[name].buf : name \in {n \in {"image1", "image2", "hcl_image"} :
                                    refs[n] # NoArray}}

\* C11: after any call of blend_images (any mode, supported or not, any
\* alpha, a raised error included), of rgb_to_hcl and of hcl_to_rgb, the
\* arrays passed in hold the values they had before the call, and a returned
\* array is a new object: it shares its buffer with no input.
C11_InputsUntouched ==
    pc \notin {"call", "rgb"} =>
        /\ Load(heap, refs.image1) = image1
        /\ refs.image2 # NoArray => Load(heap, refs.image2) = image2
        /\ refs.hcl_image # NoArray =>
               /\ Load(heap, refs.hcl_image) = hcl_image
               /\ refs.hcl_image.buf # refs.image1.buf
        /\ refs.result # NoArray =>
               /\ refs.result.buf \notin InputBuffers
               /\ Load(heap, refs.result) = result

\* mode normal, where blended_image starts as image2 itself, has returned a
\* mix of the two images in a new array and image2 still holds its value
C11_Witness ==
    /\ pc = "returned"
    /\ blend_mode = "normal"
    /\ alpha = Half
    /\ image1 # image2
    /\ refs.image2 = Ref(2, 0)
    /\ heap[2] = image2
    /\ refs.result = Ref(4, 0)
    /\ result # image2
    /\ result # image1

\* the pixel hcl_to_rgb was called on (a grid of one pixel): its hue, chroma
\* and luma, its intermediate value X, its sector triple and its adjustment m
HueIn == hcl_image[1][1][1]
ChromaIn == hcl_image[1][1][2]
LumaIn == hcl_image[1][1][3]
XIn == Mul(ChromaIn,
           Sub(One, Abs(Sub(Mod(Mul(HueIn, Six), Two), One))))
TripleIn == sector_rgb1(Mul(HueIn, Six), ChromaIn, XIn)
MIn == Sub(LumaIn, Luma(TripleIn[1], TripleIn[2], TripleIn[3]))

\* the three regimes
TooBright == Less(One, Add(MIn, ChromaIn))
TooDark == ~TooBright /\ Less(MIn, Zero)
NormalRegime == ~TooBright /\ ~TooDark

\* hcl_to_rgb has returned
Converted == pc \in {"rgb_back", "hcl_back"}

\* 2m + chroma + x - 2
TwoChannelOverflow == Sub(Add(Add(Mul(Two, MIn), ChromaIn), XIn), Two)

\* (m + chroma - 1) / 2
OneChannelOverflow == Div(Sub(Add(MIn, ChromaIn), One), Two)

\* the returned pixel is the sector triple plus m plus ma, clipped
AddedToEveryChannel(ma) ==
    \A k \in 1..3 :
        result[1][1][k] = Clip(Add(Add(TripleIn[k], MIn), ma), Zero, One)

\* C12 as stated: for every too bright pixel (m + chroma > 1) the value
\* added to each sector channel before the clipping is m + ma with
\* ma = 2m + chroma + x - 2, whether or not m + x > 1.
C12_AddFactorUnconditional ==
    (Converted /\ TooBright) => AddedToEveryChannel(TwoChannelOverflow)

\* C12 amended: for every too bright pixel the value added to each sector
\* channel before the clipping is m + ma, with ma = 2m + chroma + x - 2
\* when m + x > 1 and ma = (m + chroma - 1) / 2 otherwise.
C12_AddFactorSelected ==
    (Converted /\ TooBright) =>
        /\ Less(One, Add(MIn, XIn)) => AddedToEveryChannel(TwoChannelOverflow)
        /\ ~Less(One, Add(MIn, XIn)) => AddedToEveryChannel(OneChannelOverflow)

\* a too bright pixel with m + x <= 1 has been converted, and the pixel
\* returned is not the one the unconditional add factor gives
C12_Witness ==
    /\ Converted
    /\ TooBright
    /\ ~Less(One, Add(MIn, XIn))
    /\ AddedToEveryChannel(OneChannelOverflow)
    /\ ~AddedToEveryChannel(TwoChannelOverflow)

\* C13 as stated: for every supported mode and equal-shaped inputs, of three
\* channels or of four, the call returns normally a grid of the inputs'
\* shape; difference, hue, saturation, color and luminosity ignore a fourth
\* channel and do not fail in the alpha blending.
C13_ShapePreserved ==
    (pc # "call" /\ Shape(image1) = Shape(image2)
         /\ blend_mode \in SupportedModes)
        => (pc = "returned" /\ raised = None /\ Shape(result) = Shape(image1))

\* C14 as stated: for each of the eight modes both modules implement, every
\* alpha and every pair of equal-shaped grids, the older blend_images
\* returns the grid the main blend_images returns.
C14_ImplementationsAgree ==
    (pc = "returned" /\ blend_mode \in LegacyModes)
        => result = call_result(image1, image2, alpha, blend_mode)

\* the pixel rgb_to_hcl was called on (a grid of one pixel), its maximum and
\* the hue and chroma returned for it
PixelOf == image1[1][1]
MaxOf == Maximum(Maximum(PixelOf[1], PixelOf[2]), PixelOf[3])
HueOut == hcl_image[1][1][1]
ChromaOut == hcl_image[1][1][2]

\* the normalised hue by the formula of channel k alone
HueBy(k) ==
    LET r == PixelOf[1]
        g == PixelOf[2]
        b == PixelOf[3]
        sector == CASE k = 1 -> Div(Sub(g, b), ChromaOut)
                    [] k = 2 -> Add(Two, Div(Sub(b, r), ChromaOut))
                    [] k = 3 -> Add(Four, Div(Sub(r, g), ChromaOut))
    IN  Mod(Div(sector, Six), One)

\* rgb_to_hcl has returned
HclReturned == pc \in {"hcl", "rgb_back"} /\ image1 # None

\* C15, first part: when channels tie for the maximum (chroma > 0) the hue
\* returned is the normalised value of the formula of each of the tied
\* channels.
C15_TiedFormulasAgree ==
    (HclReturned /\ Less(Zero, ChromaOut)) =>
        \A k \in 1..3 : PixelOf[k] = MaxOf => HueOut = HueBy(k)

\* C15 as stated: the tied formulas agree, the hue lies in [0, 1), and it
\* is 0 exactly when the chroma is 0 or the hue angle is 0 (red is the
\* maximum and green equals blue).
C15_HueWellDefined ==
    HclReturned =>
        /\ Less(Zero, ChromaOut) =>
               \A k \in 1..3 : PixelOf[k] = MaxOf => HueOut = HueBy(k)
        /\ LessEq(Zero, HueOut) /\ Less(HueOut, One)
        /\ HueOut = Zero <=>
               (ChromaOut = Zero
                \/ (PixelOf[1] = MaxOf /\ PixelOf[2] = PixelOf[3]))

====
